---- MODULE Spec2Model ----
(***************************************************************************)
(* Model of igl::vulkan::VulkanFeatures (src/igl/vulkan/VulkanFeatures.cpp)*)
(* : the feature structures of two VulkanFeatures objects, the pNext chain *)
(* that links them, the population from a physical device, the default     *)
(* feature selection, the comparison of requested against available        *)
(* features and the copy assignment.                                       *)
(***************************************************************************)
EXTENDS Integers, Sequences, FiniteSets, TLC

VARIABLES
  vf,         \* the VulkanFeatures objects: vf[o] holds version_, config_, extensions_ and the feature structures
  platform,   \* the platform the build targets: "apple", "android" or "other"
  debugBreak, \* whether a failed IGL_DEBUG_ASSERT / IGL_DEBUG_ABORT stops the program in this build
  device,     \* the physical device: the extensions it advertises and the features it supports
  context,    \* the VulkanContext: its config_ and which entry points of vf_ are loaded
  halted,     \* the program was stopped by an assertion, an abort or a call through a null entry point
  last,       \* the last operation that ran, with its arguments and its result
  ops         \* number of operations run so far

vars == <<vf, platform, debugBreak, device, context, halted, last, ops>>

-----------------------------------------------------------------------------
(* Bounds of the model *)

\* operations run after construction
MaxOps == 3
\* largest extension count the count query of populate may report
MaxCount == 3

-----------------------------------------------------------------------------
(* Vulkan constants *)

VK_MAKE_VERSION(major, minor, patch) == major * 4194304 + minor * 4096 + patch
VK_API_VERSION_1_1 == VK_MAKE_VERSION(1, 1, 0)
VK_API_VERSION_1_2 == VK_MAKE_VERSION(1, 2, 0)
VK_API_VERSION_1_3 == VK_MAKE_VERSION(1, 3, 0)

VK_EXT_INDEX_TYPE_UINT8_EXTENSION_NAME == "VK_EXT_index_type_uint8"
VK_KHR_SYNCHRONIZATION_2_EXTENSION_NAME == "VK_KHR_synchronization2"
VK_KHR_TIMELINE_SEMAPHORE_EXTENSION_NAME == "VK_KHR_timeline_semaphore"

-----------------------------------------------------------------------------
(* The feature structures (members of VulkanFeatures) and their fields *)

Root == "VkPhysicalDeviceFeatures2_"
Ycbcr == "VkPhysicalDeviceSamplerYcbcrConversionFeatures_"
DrawParams == "VkPhysicalDeviceShaderDrawParametersFeatures_"
Multiview == "VkPhysicalDeviceMultiviewFeatures_"
BufferDeviceAddress == "VkPhysicalDeviceBufferDeviceAddressFeaturesKHR_"
DescriptorIndexing == "VkPhysicalDeviceDescriptorIndexingFeaturesEXT_"
Storage16 == "VkPhysicalDevice16BitStorageFeatures_"
Float16Int8 == "VkPhysicalDeviceShaderFloat16Int8Features_"
IndexTypeUint8 == "VkPhysicalDeviceIndexTypeUint8Features_"
Synchronization2 == "VkPhysicalDeviceSynchronization2Features_"
TimelineSemaphore == "VkPhysicalDeviceTimelineSemaphoreFeatures_"

Blocks ==
  { Root, Ycbcr, DrawParams, Multiview, BufferDeviceAddress, DescriptorIndexing,
    Storage16, Float16Int8, IndexTypeUint8, Synchronization2, TimelineSemaphore }

\* the fields of VkPhysicalDeviceFeatures2_.features that the code names
FeaturesFields ==
  { "dualSrcBlend", "shaderInt16", "multiDrawIndirect", "drawIndirectFirstInstance",
    "depthBiasClamp", "fillModeNonSolid" }

DescriptorIndexingFields ==
  { "shaderInputAttachmentArrayDynamicIndexing",
    "shaderUniformTexelBufferArrayDynamicIndexing",
    "shaderStorageTexelBufferArrayDynamicIndexing",
    "shaderUniformBufferArrayNonUniformIndexing",
    "shaderSampledImageArrayNonUniformIndexing",
    "shaderStorageBufferArrayNonUniformIndexing",
    "shaderStorageImageArrayNonUniformIndexing",
    "shaderInputAttachmentArrayNonUniformIndexing",
    "shaderUniformTexelBufferArrayNonUniformIndexing",
    "shaderStorageTexelBufferArrayNonUniformIndexing",
    "descriptorBindingUniformBufferUpdateAfterBind",
    "descriptorBindingSampledImageUpdateAfterBind",
    "descriptorBindingStorageImageUpdateAfterBind",
    "descriptorBindingStorageBufferUpdateAfterBind",
    "descriptorBindingUniformTexelBufferUpdateAfterBind",
    "descriptorBindingStorageTexelBufferUpdateAfterBind",
    "descriptorBindingUpdateUnusedWhilePending",
    "descriptorBindingPartiallyBound",
    "descriptorBindingVariableDescriptorCount",
    "runtimeDescriptorArray" }

Fields(b) ==
  CASE b = Root -> FeaturesFields
    [] b = Ycbcr -> { "samplerYcbcrConversion" }
    [] b = DrawParams -> { "shaderDrawParameters" }
    [] b = Multiview -> { "multiview", "multiviewGeometryShader", "multiviewTessellationShader" }
    [] b = BufferDeviceAddress ->
         { "bufferDeviceAddress", "bufferDeviceAddressCaptureReplay",
           "bufferDeviceAddressMultiDevice" }
    [] b = DescriptorIndexing -> DescriptorIndexingFields
    [] b = Storage16 ->
         { "storageBuffer16BitAccess", "uniformAndStorageBuffer16BitAccess",
           "storagePushConstant16", "storageInputOutput16" }
    [] b = Float16Int8 -> { "shaderFloat16", "shaderInt8" }
    [] b = IndexTypeUint8 -> { "indexTypeUint8" }
    [] b = Synchronization2 -> { "synchronization2" }
    [] b = TimelineSemaphore -> { "timelineSemaphore" }

\* every feature flag of a VulkanFeatures object, as <<structure, field>>
AllFlags == UNION { { <<b, f>> : f \in Fields(b) } : b \in Blocks }

-----------------------------------------------------------------------------
(* Pointers between feature structures *)

Objs == { "a", "b" }

\* nullptr
NULL == [obj |-> "", blk |-> ""]
\* the address of member b of object o
Ptr(o, b) == [obj |-> o, blk |-> b]

\* ptr->pNext = q
SetNext(h, p, q) == [h EXCEPT ![p.obj].blk[p.blk].pNext = q]

\* the last structure of the list that starts at p (the list is followed for at
\* most n links)
RECURSIVE ListTail(_, _, _)
ListTail(h, p, n) ==
  IF n = 0 \/ h[p.obj].blk[p.blk].pNext = NULL
    THEN p
    ELSE ListTail(h, h[p.obj].blk[p.blk].pNext, n - 1)

\* the structures of the list that starts at p, in order (at most n of them)
RECURSIVE ListFrom(_, _, _)
ListFrom(h, p, n) ==
  IF p = NULL \/ n = 0
    THEN << >>
    ELSE << p >> \o ListFrom(h, h[p.obj].blk[p.blk].pNext, n - 1)

\* an upper bound on the length of any acyclic list
MaxList == Cardinality(Objs) * Cardinality(Blocks)

\* ivkAddNext(node, next): append next at the end of the pNext list of node. A
\* list that runs into a cycle is never left by the walk, and nothing is written.
ivkAddNext(h, node, next) ==
  LET tail == ListTail(h, node, MaxList)
  IN IF h[tail.obj].blk[tail.blk].pNext = NULL THEN SetNext(h, tail, next) ELSE h

-----------------------------------------------------------------------------
(* VulkanFeatures *)

\* the names that differ from an extension name only in case
Lowered(name) ==
  CASE name = "VK_KHR_SYNCHRONIZATION2" -> VK_KHR_SYNCHRONIZATION_2_EXTENSION_NAME
    [] OTHER -> name

\* hasExtension comparing without regard to case
hasExtension_IgnoreCase(self, ext) ==
  \E i \in 1..Len(self.extensions_) : Lowered(self.extensions_[i]) = Lowered(ext)

\* hasExtension(ext): strcmp against every entry of extensions_
hasExtension(self, ext) ==
  \E i \in 1..Len(self.extensions_) : self.extensions_[i] = ext

\* assembleFeatureChain without the resets of pNext
assembleFeatureChain_NoReset(h, o, config) ==
  LET add(g, b) == ivkAddNext(g, Ptr(o, Root), Ptr(o, b))
      h2 == add(add(add(h, Ycbcr), DrawParams), Multiview)
      h3 == IF h[o].version_ >= VK_API_VERSION_1_2 THEN add(h2, Float16Int8) ELSE h2
      h5 == IF config.enableBufferDeviceAddress THEN add(h3, BufferDeviceAddress) ELSE h3
      h7 == IF config.enableDescriptorIndexing THEN add(h5, DescriptorIndexing) ELSE h5
      h8 == add(h7, Storage16)
      h9 == IF hasExtension(h[o], VK_EXT_INDEX_TYPE_UINT8_EXTENSION_NAME)
              THEN add(h8, IndexTypeUint8) ELSE h8
      h10 == IF hasExtension(h[o], VK_KHR_SYNCHRONIZATION_2_EXTENSION_NAME)
               THEN add(h9, Synchronization2) ELSE h9
  IN IF hasExtension(h[o], VK_KHR_TIMELINE_SEMAPHORE_EXTENSION_NAME)
       THEN add(h10, TimelineSemaphore) ELSE h10

\* assembleFeatureChain resetting only the first eight structures
assembleFeatureChain_PartialReset(h, o, config) ==
  LET reset(g, b) == SetNext(g, Ptr(o, b), NULL)
      add(g, b) == ivkAddNext(g, Ptr(o, Root), Ptr(o, b))
      h1 == reset(reset(reset(reset(reset(reset(reset(reset(h,
              Root), Ycbcr), DrawParams), Multiview), IndexTypeUint8),
              Synchronization2), TimelineSemaphore), Float16Int8)
      h2 == add(add(add(h1, Ycbcr), DrawParams), Multiview)
      h3 == IF h[o].version_ >= VK_API_VERSION_1_2 THEN add(h2, Float16Int8) ELSE h2
      h5 == IF config.enableBufferDeviceAddress THEN add(h3, BufferDeviceAddress) ELSE h3
      h7 == IF config.enableDescriptorIndexing THEN add(h5, DescriptorIndexing) ELSE h5
      h8 == add(h7, Storage16)
      h9 == IF hasExtension(h[o], VK_EXT_INDEX_TYPE_UINT8_EXTENSION_NAME)
              THEN add(h8, IndexTypeUint8) ELSE h8
      h10 == IF hasExtension(h[o], VK_KHR_SYNCHRONIZATION_2_EXTENSION_NAME)
               THEN add(h9, Synchronization2) ELSE h9
  IN IF hasExtension(h[o], VK_KHR_TIMELINE_SEMAPHORE_EXTENSION_NAME)
       THEN add(h10, TimelineSemaphore) ELSE h10

\* assembleFeatureChain comparing the version with > in place of >=
assembleFeatureChain_VersionGt(h, o, config) ==
  LET reset(g, b) == SetNext(g, Ptr(o, b), NULL)
      add(g, b) == ivkAddNext(g, Ptr(o, Root), Ptr(o, b))
      h1 == reset(reset(reset(reset(reset(reset(reset(reset(h,
              Root), Ycbcr), DrawParams), Multiview), IndexTypeUint8),
              Synchronization2), TimelineSemaphore), Float16Int8)
      h2 == add(add(add(h1, Ycbcr), DrawParams), Multiview)
      h3 == IF h[o].version_ > VK_API_VERSION_1_2 THEN add(h2, Float16Int8) ELSE h2
      h4 == reset(h3, BufferDeviceAddress)
      h5 == IF config.enableBufferDeviceAddress THEN add(h4, BufferDeviceAddress) ELSE h4
      h6 == reset(h5, DescriptorIndexing)
      h7 == IF config.enableDescriptorIndexing THEN add(h6, DescriptorIndexing) ELSE h6
      h8 == add(reset(h7, Storage16), Storage16)
      h9 == IF hasExtension(h[o], VK_EXT_INDEX_TYPE_UINT8_EXTENSION_NAME)
              THEN add(h8, IndexTypeUint8) ELSE h8
      h10 == IF hasExtension(h[o], VK_KHR_SYNCHRONIZATION_2_EXTENSION_NAME)
               THEN add(h9, Synchronization2) ELSE h9
  IN IF hasExtension(h[o], VK_KHR_TIMELINE_SEMAPHORE_EXTENSION_NAME)
       THEN add(h10, TimelineSemaphore) ELSE h10

\* assembleFeatureChain(config) on object o
assembleFeatureChain(h, o, config) ==
  LET reset(g, b) == SetNext(g, Ptr(o, b), NULL)
      add(g, b) == ivkAddNext(g, Ptr(o, Root), Ptr(o, b))
      h1 == reset(reset(reset(reset(reset(reset(reset(reset(h,
              Root), Ycbcr), DrawParams), Multiview), IndexTypeUint8),
              Synchronization2), TimelineSemaphore), Float16Int8)
      h2 == add(add(add(h1, Ycbcr), DrawParams), Multiview)
      h3 == IF h[o].version_ >= VK_API_VERSION_1_2 THEN add(h2, Float16Int8) ELSE h2
      h4 == reset(h3, BufferDeviceAddress)
      h5 == IF config.enableBufferDeviceAddress THEN add(h4, BufferDeviceAddress) ELSE h4
      h6 == reset(h5, DescriptorIndexing)
      h7 == IF config.enableDescriptorIndexing THEN add(h6, DescriptorIndexing) ELSE h6
      h8 == add(reset(h7, Storage16), Storage16)
      h9 == IF hasExtension(h[o], VK_EXT_INDEX_TYPE_UINT8_EXTENSION_NAME)
              THEN add(h8, IndexTypeUint8) ELSE h8
      h10 == IF hasExtension(h[o], VK_KHR_SYNCHRONIZATION_2_EXTENSION_NAME)
               THEN add(h9, Synchronization2) ELSE h9
  IN IF hasExtension(h[o], VK_KHR_TIMELINE_SEMAPHORE_EXTENSION_NAME)
       THEN add(h10, TimelineSemaphore) ELSE h10

\* the member initialisers of the constructor: every pNext null, every flag
\* VK_FALSE but synchronization2 and timelineSemaphore
InitialFlag(b, f) == b \in { Synchronization2, TimelineSemaphore }

MemberInit(version, config) ==
  [ version_ |-> version,
    config_ |-> config,
    extensions_ |-> << >>,
    blk |-> [ b \in Blocks |->
              [ pNext |-> NULL, f |-> [ x \in Fields(b) |-> InitialFlag(b, x) ] ] ] ]

\* VulkanFeatures(version, config) constructing object o
VulkanFeatures(h, o, version, config) ==
  assembleFeatureChain([h EXCEPT ![o] = MemberInit(version, config)], o, config)

\* enableDefaultFeatures1_1()
enableDefaultFeatures1_1(self, plat) ==
  LET c == self.config_
  IN [ self EXCEPT
         !.blk[Root].f["dualSrcBlend"] = c.enableDualSrcBlend,
         !.blk[Root].f["shaderInt16"] = c.enableShaderInt16,
         !.blk[Root].f["multiDrawIndirect"] = TRUE,
         !.blk[Root].f["drawIndirectFirstInstance"] = TRUE,
         !.blk[Root].f["depthBiasClamp"] = TRUE,
         !.blk[Root].f["fillModeNonSolid"] = (plat # "android"),
         !.blk[DescriptorIndexing].f =
            IF c.enableDescriptorIndexing
              THEN [ @ EXCEPT
                       !["shaderSampledImageArrayNonUniformIndexing"] = TRUE,
                       !["descriptorBindingUniformBufferUpdateAfterBind"] = TRUE,
                       !["descriptorBindingSampledImageUpdateAfterBind"] = TRUE,
                       !["descriptorBindingStorageImageUpdateAfterBind"] = TRUE,
                       !["descriptorBindingStorageBufferUpdateAfterBind"] = TRUE,
                       !["descriptorBindingUpdateUnusedWhilePending"] = TRUE,
                       !["descriptorBindingPartiallyBound"] = TRUE,
                       !["runtimeDescriptorArray"] = TRUE ]
              ELSE @,
         !.blk[Storage16].f["storageBuffer16BitAccess"] = c.enableStorageBuffer16BitAccess,
         !.blk[BufferDeviceAddress].f["bufferDeviceAddress"] =
            IF c.enableBufferDeviceAddress THEN TRUE ELSE @,
         !.blk[Multiview].f["multiview"] = TRUE,
         !.blk[Ycbcr].f["samplerYcbcrConversion"] = TRUE,
         !.blk[DrawParams].f["shaderDrawParameters"] = c.enableShaderDrawParameters,
         !.blk[Synchronization2].f["synchronization2"] = TRUE,
         !.blk[TimelineSemaphore].f["timelineSemaphore"] = TRUE ]

-----------------------------------------------------------------------------
(* checkSelectedFeatures *)

\* one use of a checking macro: the structure, the field, the version text of
\* the macro and the configuration toggle that guards the use
Chk(b, s, f, v, g) == [blk |-> b, struct |-> s, feature |-> f, version |-> v, gate |-> g]

F11(f) == Chk(Root, "VkPhysicalDeviceFeatures2_.features", f, "1.1", "")
DI(f) == Chk(DescriptorIndexing, DescriptorIndexing, f, "1.1 EXT", "enableDescriptorIndexing")
EXT(b, f) == Chk(b, b, f, "1.1 EXT", "")

\* the checks of checkSelectedFeatures, in source order
CheckList ==
  << F11("dualSrcBlend"), F11("shaderInt16"), F11("multiDrawIndirect"),
     F11("drawIndirectFirstInstance"), F11("depthBiasClamp"), F11("fillModeNonSolid"),
     DI("shaderSampledImageArrayNonUniformIndexing"),
     DI("descriptorBindingUniformBufferUpdateAfterBind"),
     DI("descriptorBindingSampledImageUpdateAfterBind"),
     DI("descriptorBindingStorageImageUpdateAfterBind"),
     DI("descriptorBindingStorageBufferUpdateAfterBind"),
     DI("descriptorBindingUpdateUnusedWhilePending"),
     DI("descriptorBindingPartiallyBound"),
     DI("runtimeDescriptorArray"),
     EXT(Storage16, "storageBuffer16BitAccess"),
     Chk(BufferDeviceAddress, BufferDeviceAddress, "bufferDeviceAddress", "1.1 EXT",
         "enableBufferDeviceAddress"),
     EXT(Multiview, "multiview"),
     EXT(Ycbcr, "samplerYcbcrConversion"),
     EXT(DrawParams, "shaderDrawParameters"),
     Chk(Float16Int8, Float16Int8, "shaderFloat16", "1.2", "") >>

\* the entry "\n   <version> <structure>.<feature>" of the missing-features text
Entry(c) == [version |-> c.version, struct |-> c.struct, feature |-> c.feature]

\* ENABLE_VULKAN_FEATURE without the test of the requested feature
ENABLE_VULKAN_FEATURE_Unrequested(missingFeatures, requested, available, c) ==
  IF available = FALSE
    THEN Append(missingFeatures, Entry(c))
    ELSE missingFeatures

\* ENABLE_VULKAN_FEATURE putting the entry at the front of the text
ENABLE_VULKAN_FEATURE_Prepend(missingFeatures, requested, available, c) ==
  IF requested = TRUE /\ available = FALSE
    THEN << Entry(c) >> \o missingFeatures
    ELSE missingFeatures

\* ENABLE_VULKAN_FEATURE: append the entry if the feature is requested and not available
ENABLE_VULKAN_FEATURE(missingFeatures, requested, available, c) ==
  IF requested = TRUE /\ available = FALSE
    THEN Append(missingFeatures, Entry(c))
    ELSE missingFeatures

\* every check runs, whatever the configuration
Guarded_Always(config, c) == TRUE

\* whether the configuration lets check c run
Guarded(config, c) ==
  CASE c.gate = "enableDescriptorIndexing" -> config.enableDescriptorIndexing
    [] c.gate = "enableBufferDeviceAddress" -> config.enableBufferDeviceAddress
    [] OTHER -> TRUE

\* missingFeatures after the first n checks
RECURSIVE MissingFeatures(_, _, _)
MissingFeatures(self, availableFeatures, n) ==
  IF n = 0
    THEN << >>
    ELSE LET c == CheckList[n]
             before == MissingFeatures(self, availableFeatures, n - 1)
         IN IF Guarded(self.config_, c)
              THEN ENABLE_VULKAN_FEATURE(before, self.blk[c.blk].f[c.feature],
                                         availableFeatures.blk[c.blk].f[c.feature], c)
              ELSE before

\* the result with the platform test inverted
CheckOutcome_Inverted(missingFeatures, plat, dbgBreak) ==
  IF missingFeatures # << >> /\ plat = "apple"
    THEN IF dbgBreak THEN "aborted" ELSE "RuntimeError"
    ELSE "Ok"

\* the result for a given missing-features text
CheckOutcome(missingFeatures, plat, dbgBreak) ==
  IF missingFeatures # << >> /\ plat # "apple"
    THEN IF dbgBreak THEN "aborted" ELSE "RuntimeError"
    ELSE "Ok"

\* checkSelectedFeatures(availableFeatures): the missing features and the result,
\* "aborted" when IGL_DEBUG_ASSERT or IGL_DEBUG_ABORT stops the program
checkSelectedFeatures(self, availableFeatures, plat, dbgBreak) ==
  IF availableFeatures.version_ # self.version_ /\ dbgBreak
    THEN [report |-> << >>, result |-> "aborted"]
    ELSE LET missingFeatures == MissingFeatures(self, availableFeatures, Len(CheckList))
         IN [report |-> missingFeatures,
             result |-> CheckOutcome(missingFeatures, plat, dbgBreak)]

-----------------------------------------------------------------------------
(* populateWithAvailablePhysicalDeviceFeatures *)

Min(x, y) == IF x < y THEN x ELSE y

\* extensions_.resize(n): the first entries are kept, new entries are zeroed
Resize(exts, n) == [ i \in 1..n |-> IF i <= Len(exts) THEN exts[i] ELSE "" ]

\* vkEnumerateDeviceExtensionProperties with a buffer of Len(buf) entries: the
\* device writes as many of its extensions as fit
EnumerateInto(buf, devExts) ==
  [ i \in 1..Len(buf) |-> IF i <= Min(Len(buf), Len(devExts)) THEN devExts[i] ELSE buf[i] ]

\* the device's answer for one structure of the chain
DeviceFlags(dev, b) == [ x \in Fields(b) |-> <<b, x>> \notin dev.denied ]

\* vkGetPhysicalDeviceFeatures2: the device fills every structure of the list
RECURSIVE FillChain(_, _, _)
FillChain(h, dev, chain) ==
  IF chain = << >>
    THEN h
    ELSE LET p == Head(chain)
         IN FillChain([h EXCEPT ![p.obj].blk[p.blk].f = DeviceFlags(dev, p.blk)],
                      dev, Tail(chain))

vkGetPhysicalDeviceFeatures2(h, dev, root) == FillChain(h, dev, ListFrom(h, root, MaxList))

\* populateWithAvailablePhysicalDeviceFeatures(context, physicalDevice) on object o;
\* count is what the first enumeration call reports
populateWithAvailablePhysicalDeviceFeatures(h, o, ctx, dev, count, dbgBreak) ==
  IF ~ctx.vkGetPhysicalDeviceFeatures2 /\ dbgBreak
    THEN [h |-> h, result |-> "aborted", assembled |-> FALSE]
  ELSE IF ~ctx.vkEnumerateDeviceExtensionProperties
    THEN [h |-> h, result |-> "crashed", assembled |-> FALSE]
  ELSE
    LET exts == EnumerateInto(Resize(h[o].extensions_, count), dev.exts)
        h1 == assembleFeatureChain([h EXCEPT ![o].extensions_ = exts], o, ctx.config_)
    IN IF ~ctx.vkGetPhysicalDeviceFeatures2
         THEN [h |-> h1, result |-> "crashed", assembled |-> TRUE]
         ELSE [h |-> vkGetPhysicalDeviceFeatures2(h1, dev, Ptr(o, Root)), result |-> "Ok",
               assembled |-> TRUE]

-----------------------------------------------------------------------------
(* operator= *)

sameConfiguration(c1, c2) ==
  /\ c1.enableBufferDeviceAddress = c2.enableBufferDeviceAddress
  /\ c1.enableDescriptorIndexing = c2.enableDescriptorIndexing

\* the copies of operator= without the copy of extensions_
CopyMembers_NoExtensions(this, other) == [ this EXCEPT !.blk = other.blk ]

\* the member-wise copies of operator=
CopyMembers(this, other) ==
  [ this EXCEPT !.blk = other.blk, !.extensions_ = other.extensions_ ]

\* whether this = other gets past the early returns of operator=
Copies(h, d, s) ==
  /\ d # s
  /\ h[d].version_ = h[s].version_
  /\ sameConfiguration(h[d].config_, h[s].config_)

\* operator= without the call of assembleFeatureChain after the copies
operatorAssign_NoReassemble(h, d, s) ==
  IF Copies(h, d, s) THEN [h EXCEPT ![d] = CopyMembers(h[d], h[s])] ELSE h

\* this = other, for objects d (this) and s (other)
operatorAssign(h, d, s) ==
  IF Copies(h, d, s)
    THEN assembleFeatureChain([h EXCEPT ![d] = CopyMembers(h[d], h[s])], d, h[d].config_)
    ELSE h

-----------------------------------------------------------------------------
(* The environment: builds, configurations, devices and contexts *)

Platforms == { "apple", "android", "other" }

\* VulkanContextConfig, the toggles the code reads
Config(bda, di, i16, s16, dp, dsb) ==
  [ enableBufferDeviceAddress |-> bda,
    enableDescriptorIndexing |-> di,
    enableShaderInt16 |-> i16,
    enableStorageBuffer16BitAccess |-> s16,
    enableShaderDrawParameters |-> dp,
    enableDualSrcBlend |-> dsb ]

AllConfigs ==
  { Config(bda, di, i16, s16, dp, dsb) :
      bda \in BOOLEAN, di \in BOOLEAN, i16 \in BOOLEAN,
      s16 \in BOOLEAN, dp \in BOOLEAN, dsb \in BOOLEAN }

Toggles ==
  { "enableBufferDeviceAddress", "enableDescriptorIndexing", "enableShaderInt16",
    "enableStorageBuffer16BitAccess", "enableShaderDrawParameters", "enableDualSrcBlend" }

AllOn == Config(TRUE, TRUE, TRUE, TRUE, TRUE, TRUE)
AllOff == Config(FALSE, FALSE, FALSE, FALSE, FALSE, FALSE)

\* the configurations objects are constructed with: every toggle on, every
\* toggle off, exactly one off
Configs == { AllOn, AllOff } \cup { [AllOn EXCEPT ![t] = FALSE] : t \in Toggles }

Versions == { VK_API_VERSION_1_1, VK_API_VERSION_1_2 }

\* a device that advertises the extensions exts and lacks the features denied
Device(exts, denied) == [exts |-> exts, denied |-> denied]

AllThree ==
  << VK_KHR_TIMELINE_SEMAPHORE_EXTENSION_NAME, VK_KHR_SYNCHRONIZATION_2_EXTENSION_NAME,
     VK_EXT_INDEX_TYPE_UINT8_EXTENSION_NAME >>

\* extension lists a device may advertise
ExtensionLists ==
  { << >>,
    << "VK_KHR_swapchain", VK_EXT_INDEX_TYPE_UINT8_EXTENSION_NAME >>,
    << "VK_KHR_SYNCHRONIZATION2", VK_KHR_TIMELINE_SEMAPHORE_EXTENSION_NAME >>,
    AllThree }

\* feature sets a device may lack: none, all, and single flags of every kind of
\* structure
DeniedSets ==
  { {}, AllFlags,
    { <<Root, "dualSrcBlend">> }, { <<Root, "fillModeNonSolid">> },
    { <<DescriptorIndexing, "runtimeDescriptorArray">> },
    { <<BufferDeviceAddress, "bufferDeviceAddress">> },
    { <<Storage16, "storageBuffer16BitAccess">> },
    { <<Float16Int8, "shaderInt8">> },
    { <<Synchronization2, "synchronization2">> },
    { <<TimelineSemaphore, "timelineSemaphore">> } }

\* a VulkanContext: its config_ and whether the two entry points of vf_ are loaded
Context(config, features2, enumerate) ==
  [ config_ |-> config,
    vkGetPhysicalDeviceFeatures2 |-> features2,
    vkEnumerateDeviceExtensionProperties |-> enumerate ]

\* an environment: the build, the device, the context and the arguments of the
\* two constructor calls
Env(plat, dbg, dev, ctx, va, ca, vb, cb) ==
  [ platform |-> plat, debugBreak |-> dbg, device |-> dev, context |-> ctx,
    va |-> va, ca |-> ca, vb |-> vb, cb |-> cb ]

\* configurations and versions vary, against contexts of either configuration
ConfigEnvs ==
  { Env("other", FALSE, Device(AllThree, {}), Context(cc, TRUE, TRUE),
        va, ca, VK_API_VERSION_1_2, AllOn) :
      cc \in { AllOn, AllOff }, va \in Versions, ca \in Configs }

NoBufferDeviceAddress == [AllOn EXCEPT !.enableBufferDeviceAddress = FALSE]

\* devices vary, the context has the configuration of one of the objects
DeviceEnvs ==
  { Env("other", FALSE, Device(exts, denied), Context(NoBufferDeviceAddress, TRUE, TRUE),
        v, AllOn, v, NoBufferDeviceAddress) :
      exts \in ExtensionLists, denied \in { {}, AllFlags }, v \in Versions }

\* entry points are missing
EntryPointEnvs ==
  { Env("other", dbg, Device(AllThree, {}), Context(AllOn, f2, en),
        VK_API_VERSION_1_2, AllOn, VK_API_VERSION_1_2, AllOn) :
      dbg \in BOOLEAN, f2 \in BOOLEAN, en \in BOOLEAN }

\* platforms and device features vary
NegotiationEnvs ==
  { Env(plat, FALSE, Device(AllThree, denied), Context(AllOn, TRUE, TRUE),
        VK_API_VERSION_1_2, AllOn, VK_API_VERSION_1_2, AllOn) :
      plat \in Platforms, denied \in DeniedSets }

\* builds vary, the two objects have different versions or no toggle on
BuildEnvs ==
  { Env(plat, dbg, Device(AllThree, AllFlags), Context(c, TRUE, TRUE),
        VK_API_VERSION_1_2, c, vb, c) :
      plat \in Platforms, dbg \in BOOLEAN, c \in { AllOn, AllOff }, vb \in Versions }

Environments ==
  ConfigEnvs \cup DeviceEnvs \cup EntryPointEnvs \cup NegotiationEnvs \cup BuildEnvs

-----------------------------------------------------------------------------
(* The state machine *)

\* the record of an operation: this and other are the objects it ran on, count
\* the extension count of populate, assembled whether it ran assembleFeatureChain
\* on this and config the configuration it passed, report and result what
\* checkSelectedFeatures produced
NoOp ==
  [ op |-> "", this |-> "", other |-> "", count |-> 0, assembled |-> FALSE,
    config |-> AllOff, report |-> << >>, result |-> "" ]

\* two objects constructed one after the other
Constructed(va, ca, vb, cb) ==
  LET raw == [ o \in Objs |-> MemberInit(va, ca) ]
  IN VulkanFeatures(VulkanFeatures(raw, "a", va, ca), "b", vb, cb)

Init ==
  \E e \in Environments :
    /\ platform = e.platform
    /\ debugBreak = e.debugBreak
    /\ device = e.device
    /\ context = e.context
    /\ vf = Constructed(e.va, e.ca, e.vb, e.cb)
    /\ halted = FALSE
    /\ last = NoOp
    /\ ops = 0

CanRun == ~halted /\ ops < MaxOps

EnableDefaults(o) ==
  /\ CanRun
  /\ vf' = [vf EXCEPT ![o] = enableDefaultFeatures1_1(vf[o], platform)]
  /\ last' = [NoOp EXCEPT !.op = "enableDefaultFeatures1_1", !.this = o, !.result = "Ok"]
  /\ ops' = ops + 1
  /\ UNCHANGED <<platform, debugBreak, device, context, halted>>

Populate(o, count) ==
  /\ CanRun
  /\ \E r \in { populateWithAvailablePhysicalDeviceFeatures(vf, o, context, device, count,
                                                            debugBreak) } :
        /\ vf' = r.h
        /\ halted' = (r.result # "Ok")
        /\ last' = [NoOp EXCEPT !.op = "populateWithAvailablePhysicalDeviceFeatures",
                                !.this = o, !.count = count, !.result = r.result,
                                !.assembled = r.assembled, !.config = context.config_]
  /\ ops' = ops + 1
  /\ UNCHANGED <<platform, debugBreak, device, context>>

Assign(d, s) ==
  /\ CanRun
  /\ vf' = operatorAssign(vf, d, s)
  /\ last' = [NoOp EXCEPT !.op = "operator=", !.this = d, !.other = s, !.result = "Ok",
                          !.assembled = Copies(vf, d, s), !.config = vf[d].config_]
  /\ ops' = ops + 1
  /\ UNCHANGED <<platform, debugBreak, device, context, halted>>

Check(r, a) ==
  /\ CanRun
  /\ \E res \in { checkSelectedFeatures(vf[r], vf[a], platform, debugBreak) } :
        /\ last' = [NoOp EXCEPT !.op = "checkSelectedFeatures", !.this = r, !.other = a,
                                !.report = res.report, !.result = res.result]
        /\ halted' = (res.result = "aborted")
  /\ ops' = ops + 1
  /\ UNCHANGED <<vf, platform, debugBreak, device, context>>

Next ==
  \/ \E o \in Objs : EnableDefaults(o)
  \/ \E o \in Objs, count \in 0..MaxCount : Populate(o, count)
  \/ \E d \in Objs, s \in Objs : Assign(d, s)
  \/ \E r \in Objs, a \in Objs : Check(r, a)

Spec == Init /\ [][Next]_vars

-----------------------------------------------------------------------------
(* Properties *)

\* the chain of object o: the structures reached from its root, in order
Chain(h, o) == ListFrom(h, Ptr(o, Root), MaxList + 1)

\* the structures of object o that are in its chain
RECURSIVE Reached(_, _, _)
Reached(h, p, n) ==
  IF p = NULL \/ n = 0
    THEN {}
    ELSE { p } \cup Reached(h, h[p.obj].blk[p.blk].pNext, n - 1)

Linked(h, o) == { p.blk : p \in { q \in Reached(h, Ptr(o, Root), MaxList + 1) : q.obj = o } }

InChain(h, o, b) == b \in Linked(h, o)

\* the set of names in an extension catalog
Catalog(self) == { self.extensions_[i] : i \in 1..Len(self.extensions_) }

ExtensionGated == { IndexTypeUint8, Synchronization2, TimelineSemaphore }

\* the extension that introduces a structure
IntroducingExtension(b) ==
  CASE b = IndexTypeUint8 -> VK_EXT_INDEX_TYPE_UINT8_EXTENSION_NAME
    [] b = Synchronization2 -> VK_KHR_SYNCHRONIZATION_2_EXTENSION_NAME
    [] b = TimelineSemaphore -> VK_KHR_TIMELINE_SEMAPHORE_EXTENSION_NAME
    [] b = BufferDeviceAddress -> "VK_KHR_buffer_device_address"
    [] b = DescriptorIndexing -> "VK_EXT_descriptor_indexing"

\* the gating condition of a structure for an assembly that was passed config
Gate(self, b, config) ==
  CASE b \in ExtensionGated -> IntroducingExtension(b) \in Catalog(self)
    [] b = Float16Int8 -> self.version_ >= VK_API_VERSION_1_2
    [] b = BufferDeviceAddress -> config.enableBufferDeviceAddress
    [] b = DescriptorIndexing -> config.enableDescriptorIndexing
    [] OTHER -> TRUE

\* the gating condition with the two configuration-gated structures gated by
\* their extensions
ExtensionGate(self, b) ==
  CASE b \in ExtensionGated \cup { BufferDeviceAddress, DescriptorIndexing } ->
         IntroducingExtension(b) \in Catalog(self)
    [] b = Float16Int8 -> self.version_ >= VK_API_VERSION_1_2
    [] OTHER -> TRUE

\* C3 as stated: after every assembly (the constructor's, populate's, a
\* successful assignment's) a structure is in the chain if and only if it is
\* unconditional, or the version introduces it, or its extension is in the
\* catalog; the buffer-device-address and descriptor-indexing structures are in
\* the chain exactly when their extension is in the catalog.
C3_GatedByExtension ==
  /\ ops = 0 =>
       \A o \in Objs : Linked(vf, o) = { b \in Blocks : ExtensionGate(vf[o], b) }
  /\ last.assembled =>
       Linked(vf, last.this) = { b \in Blocks : ExtensionGate(vf[last.this], b) }

\* C3, amended: after every assembly a structure is in the chain if and only
\* if it is unconditional, or the version is at least the one that introduces
\* it, or its extension is in the catalog, or, for the buffer-device-address
\* and descriptor-indexing structures, the configuration passed to that
\* assembly enables it.
C3_GatedByConfig ==
  /\ ops = 0 =>
       \A o \in Objs : Linked(vf, o) = { b \in Blocks : Gate(vf[o], b, vf[o].config_) }
  /\ last.assembled =>
       Linked(vf, last.this) = { b \in Blocks : Gate(vf[last.this], b, last.config) }

\* an assembly that linked a structure for its version, one for the
\* configuration and one for an extension, and left one of each kind out
C3_Witness ==
  /\ last.assembled
  /\ vf[last.this].version_ >= VK_API_VERSION_1_2
  /\ InChain(vf, last.this, Float16Int8)
  /\ InChain(vf, last.this, DescriptorIndexing)
  /\ ~InChain(vf, last.this, BufferDeviceAddress)
  /\ InChain(vf, last.this, TimelineSemaphore)
  /\ ~InChain(vf, last.this, Synchronization2)

NoDuplicates(seq) == \A i, j \in 1..Len(seq) : seq[i] = seq[j] => i = j

\* C4: in every reachable state the chain of every object starts at its root,
\* visits each structure at most once, has no cycle and ends in a null link,
\* and every structure that is not in the chain has a null link.
C4_ChainWellFormed ==
  \A o \in Objs :
    \E chain \in { Chain(vf, o) } :
       /\ chain[1] = Ptr(o, Root)
       /\ Len(chain) <= Cardinality(Blocks)
       /\ NoDuplicates(chain)
       /\ \A i \in 1..Len(chain) : chain[i].obj = o
       /\ \A b \in Blocks \ Linked(vf, o) : vf[o].blk[b].pNext = NULL

\* an object repopulated, or assigned from a populated object, with every
\* structure in its chain
C4_Witness ==
  /\ ops >= 2
  /\ last.assembled
  /\ Len(Chain(vf, last.this)) = Cardinality(Blocks)

\* C5: no link of any structure points to a structure of the other object, so
\* after a successful assignment, and after later operations, the links of
\* the destination point into the destination only.
C5_NoLinkIntoOther ==
  \A o \in Objs, b \in Blocks :
    vf[o].blk[b].pNext # NULL => vf[o].blk[b].pNext.obj = o

\* an assignment that copied structures whose links pointed into the source,
\* extension-gated ones included
C5_Witness ==
  /\ last.op = "operator="
  /\ last.assembled
  /\ InChain(vf, last.other, Synchronization2)
  /\ InChain(vf, last.this, Synchronization2)
  /\ \A b \in Blocks : vf[last.this].blk[b].f = vf[last.other].blk[b].f

\* the configurations the code passes to assembleFeatureChain on object o
PassedConfigs(o) == { vf[o].config_, context.config_ }

\* C8: running assembleFeatureChain a second time on an object whose version,
\* configuration and catalog are unchanged gives the state the first run
\* gave (the same links, so the same chain in the same order), and a run
\* changes no feature flag, version, configuration or catalog.
C8_AssemblyIdempotent ==
  \A o \in Objs :
    \A c \in PassedConfigs(o) :
      \E once \in { assembleFeatureChain(vf, o, c) } :
        \E twice \in { assembleFeatureChain(once, o, c) } :
          /\ twice = once
          /\ Chain(twice, o) = Chain(once, o)
          /\ \A b \in Blocks : once[o].blk[b].f = vf[o].blk[b].f
          /\ once[o].version_ = vf[o].version_
          /\ once[o].config_ = vf[o].config_
          /\ once[o].extensions_ = vf[o].extensions_

\* an object whose chain, with every structure in it, was assembled by the
\* last operation and is what another assembly gives
C8_Witness ==
  /\ last.assembled
  /\ Len(Chain(vf, last.this)) = Cardinality(Blocks)
  /\ assembleFeatureChain(vf, last.this, last.config) = vf

\* C9: an extension-gated structure (index-type-uint8, synchronization2,
\* timeline-semaphore) is in the chain exactly when the catalog of its object
\* holds the name of its extension, compared exactly; with an empty catalog
\* none of them is in the chain.
C9_ExtensionGating ==
  \A o \in Objs :
    /\ Linked(vf, o) \cap ExtensionGated =
         { b \in ExtensionGated : IntroducingExtension(b) \in Catalog(vf[o]) }
    /\ vf[o].extensions_ = << >> => Linked(vf, o) \cap ExtensionGated = {}

\* a catalog that holds the synchronization2 name in another case and the
\* timeline-semaphore name: only the timeline-semaphore structure is linked
C9_Witness ==
  \E o \in Objs :
    /\ "VK_KHR_SYNCHRONIZATION2" \in Catalog(vf[o])
    /\ InChain(vf, o, TimelineSemaphore)
    /\ ~InChain(vf, o, Synchronization2)
    /\ ~InChain(vf, o, IndexTypeUint8)

-----------------------------------------------------------------------------
(* Properties of checkSelectedFeatures *)

\* the last operation was requested.checkSelectedFeatures(available)
IsCheck == last.op = "checkSelectedFeatures"
Requested == vf[last.this]
Available == vf[last.other]

\* the value of flag x = <<structure, field>> in an object
Flag(self, x) == self.blk[x[1]].f[x[2]]

\* the structure text of a report entry for a flag of structure b
StructText(b) == IF b = Root THEN "VkPhysicalDeviceFeatures2_.features" ELSE b

\* flag x has an entry in the report
Reported(report, x) ==
  \E i \in 1..Len(report) :
    report[i].struct = StructText(x[1]) /\ report[i].feature = x[2]

\* C1 as stated: for sets of equal version, every flag of every structure that
\* the requested set holds true and the available set holds false is in the
\* report, and if every flag the requested set holds true is true in the
\* available set the report is empty and the result is success.
C1_EveryRequestedFlagReported ==
  IsCheck /\ Requested.version_ = Available.version_ =>
    /\ \A x \in AllFlags :
         Flag(Requested, x) /\ ~Flag(Available, x) => Reported(last.report, x)
    /\ (\A x \in AllFlags : Flag(Requested, x) => Flag(Available, x)) =>
         last.report = << >> /\ last.result = "Ok"

\* C6 as stated: a check between sets of different versions aborts and yields
\* no result, neither success nor failure.
C6_MismatchedVersionsAbort ==
  IsCheck /\ Requested.version_ # Available.version_ => last.result = "aborted"

\* C7: every entry of the report is for a flag that is true in the requested
\* set and false in the available set, and a flag that is false in the
\* requested set has no entry, whatever the available set holds.
C7_OnlyRequestedReported ==
  IsCheck =>
    /\ \A i \in 1..Len(last.report) :
         \E x \in AllFlags :
           /\ last.report[i].struct = StructText(x[1])
           /\ last.report[i].feature = x[2]
           /\ Flag(Requested, x)
           /\ ~Flag(Available, x)
    /\ \A x \in AllFlags : ~Flag(Requested, x) => ~Reported(last.report, x)

\* a check that reported a missing feature and passed over a checked flag that
\* both sets hold false
C7_Witness ==
  /\ IsCheck
  /\ last.report # << >>
  /\ \E i \in 1..Len(CheckList) :
       /\ Guarded(Requested.config_, CheckList[i])
       /\ ~Requested.blk[CheckList[i].blk].f[CheckList[i].feature]
       /\ ~Available.blk[CheckList[i].blk].f[CheckList[i].feature]

\* the check got past its version assertion
PastAssertion == ~(Requested.version_ # Available.version_ /\ debugBreak)

\* C10: the report and the platform decide the outcome. A call that returns
\* with an empty report returns success; with a non-empty report the call
\* never returns success off the Apple family (it returns RuntimeError, unless
\* the debug abort stops the program first), and on the Apple family it
\* returns success.
C10_OutcomeByReportAndPlatform ==
  IsCheck /\ PastAssertion =>
    /\ last.report = << >> => last.result = "Ok"
    /\ last.report # << >> /\ platform # "apple" =>
         /\ last.result \in { "RuntimeError", "aborted" }
         /\ ~debugBreak => last.result = "RuntimeError"
    /\ last.report # << >> /\ platform = "apple" => last.result = "Ok"

\* a check on the Apple family that found features missing and returned success
C10_Witness ==
  /\ IsCheck
  /\ platform = "apple"
  /\ last.report # << >>
  /\ last.result = "Ok"

-----------------------------------------------------------------------------
(* Properties of operator= *)

\* C2 as stated: an assignment between objects whose versions differ, or whose
\* configurations differ in any toggle, changes nothing in either object.
C2_GuardOnEveryToggle ==
  [][ ( /\ last'.op = "operator="
        /\ \/ vf[last'.this].version_ # vf[last'.other].version_
           \/ vf[last'.this].config_ # vf[last'.other].config_ )
      => vf' = vf ]_vars

-----------------------------------------------------------------------------
(* Properties of populateWithAvailablePhysicalDeviceFeatures *)

\* the last operation was a populate that returned
IsPopulate == last.op = "populateWithAvailablePhysicalDeviceFeatures" /\ last.result = "Ok"

\* the extension names the device advertises at the fill query
Advertised == { device.exts[i] : i \in 1..Len(device.exts) }

\* C11 as stated: whatever count the first query reported, after populate the
\* catalog holds every extension name the device advertises at the fill query
\* and no entry the device did not advertise.
C11_NoTruncation ==
  IsPopulate => Catalog(vf[last.this]) = Advertised

\* C12 as stated: in a set that was constructed and then populated, every
\* structure that is not in the chain is all-false, and every flag that is
\* true was reported true by the device.
C12_UnlinkedAllFalse ==
  IsPopulate /\ ops = 1 =>
    /\ \A b \in Blocks \ Linked(vf, last.this) :
         \A f \in Fields(b) : ~vf[last.this].blk[b].f[f]
    /\ \A x \in AllFlags :
         Flag(vf[last.this], x) => x[1] \in Linked(vf, last.this) /\ x \notin device.denied

-----------------------------------------------------------------------------
(* Properties of the report of checkSelectedFeatures *)

\* the configuration-gated structures
ConfigGated == { BufferDeviceAddress, DescriptorIndexing }

\* whether the configuration enables a configuration-gated structure
Enabled(config, b) ==
  IF b = DescriptorIndexing
    THEN config.enableDescriptorIndexing
    ELSE config.enableBufferDeviceAddress

\* the checks whose flag is true in the requested set and false in the
\* available set, among those the configuration of the requested set lets run
Missing(requested, available) ==
  { i \in 1..Len(CheckList) :
      /\ CheckList[i].blk \in ConfigGated => Enabled(requested.config_, CheckList[i].blk)
      /\ requested.blk[CheckList[i].blk].f[CheckList[i].feature]
      /\ ~available.blk[CheckList[i].blk].f[CheckList[i].feature] }

\* the positions of the report that hold the entry of check i
EntriesOf(report, i) == { k \in 1..Len(report) : report[k] = Entry(CheckList[i]) }

\* what C13 says of the report: no flag of a configuration-gated group that
\* the configuration of the requested set disables is reported, and every
\* checked flag true in the requested set and false in the available set has
\* exactly one entry, so a single missing flag gives a report of one entry
ReportOfCheckedFlags ==
  /\ \A x \in AllFlags :
       x[1] \in ConfigGated /\ ~Enabled(Requested.config_, x[1]) =>
         ~Reported(last.report, x)
  /\ \A i \in Missing(Requested, Available) : Cardinality(EntriesOf(last.report, i)) = 1
  /\ Len(last.report) = Cardinality(Missing(Requested, Available))
  /\ Missing(Requested, Available) = { 1 } => last.report = << Entry(CheckList[1]) >>

\* C13 as stated: flags of a disabled configuration-gated group are neither
\* checked nor reported, every checked missing flag has exactly one entry, and
\* a request that lacks only dual-source-blend gives a report of one entry
\* and the negotiation fails.
C13_OneEntryAndFailure ==
  IsCheck /\ PastAssertion =>
    /\ ReportOfCheckedFlags
    /\ Missing(Requested, Available) = { 1 } => last.result # "Ok"

\* C13, amended: as stated, except that with a report of one entry the
\* negotiation fails off the Apple family only; on the Apple family the call
\* returns success.
C13_OneEntryAndPlatformOutcome ==
  IsCheck /\ PastAssertion =>
    /\ ReportOfCheckedFlags
    /\ Missing(Requested, Available) = { 1 } =>
         (last.result # "Ok") = (platform # "apple")

\* a check by a set whose configuration disables a group of which it holds a
\* flag true that the available set holds false; other flags were reported
C13_Witness ==
  /\ IsCheck
  /\ last.report # << >>
  /\ \E i \in 1..Len(CheckList) :
       /\ CheckList[i].blk \in ConfigGated
       /\ ~Enabled(Requested.config_, CheckList[i].blk)
       /\ Requested.blk[CheckList[i].blk].f[CheckList[i].feature]
       /\ ~Available.blk[CheckList[i].blk].f[CheckList[i].feature]

\* C14 as stated: a populate called without the entry point for extension
\* enumeration or without the one for the chained feature query stops at an
\* assertion before it changes the set: catalog, chain and flags are as before.
C14_MissingEntryPointAsserts ==
  [][ ( /\ last'.op = "populateWithAvailablePhysicalDeviceFeatures"
        /\ ops' = ops + 1
        /\ \/ ~context.vkGetPhysicalDeviceFeatures2
           \/ ~context.vkEnumerateDeviceExtensionProperties )
      => last'.result = "aborted" /\ vf' = vf ]_vars

\* the position of x in a sequence without repetitions (0 if absent)
IndexOf(seq, x) ==
  IF \E i \in 1..Len(seq) : seq[i] = x
    THEN CHOOSE i \in 1..Len(seq) : seq[i] = x
    ELSE 0

\* the order of the core 1.1 flags in a report
CoreOrder ==
  << "dualSrcBlend", "shaderInt16", "multiDrawIndirect", "drawIndirectFirstInstance",
     "depthBiasClamp", "fillModeNonSolid" >>

\* the order of the structures in a report
GroupOrder ==
  << StructText(Root), DescriptorIndexing, Storage16, BufferDeviceAddress, Multiview,
     Ycbcr, DrawParams, Float16Int8 >>

\* the version or extension tag of the entries of a structure
TagOf(struct) ==
  CASE struct = StructText(Root) -> "1.1"
    [] struct = Float16Int8 -> "1.2"
    [] OTHER -> "1.1 EXT"

\* the place of an entry in the fixed order: its structure, then the flag
\* within the structure
GroupRank(e) == IndexOf(GroupOrder, e.struct)
FlagRank(e) ==
  IF e.struct = StructText(Root)
    THEN IndexOf(CoreOrder, e.feature)
    ELSE IndexOf([ i \in 1..Len(CheckList) |-> Entry(CheckList[i]) ], e)

Before(e1, e2) ==
  \/ GroupRank(e1) < GroupRank(e2)
  \/ GroupRank(e1) = GroupRank(e2) /\ FlagRank(e1) < FlagRank(e2)

\* C15: a second run of checkSelectedFeatures on the same two sets gives the
\* same report and result, and the entries of a report are in the fixed order
\* (the six core 1.1 flags, descriptor indexing, 16-bit storage, buffer device
\* address, multiview, sampler Ycbcr conversion, shader draw parameters, the
\* 1.2 shaderFloat16), each with its tag, its structure and its field.
C15_DeterministicOrder ==
  IsCheck /\ PastAssertion =>
    /\ \E again \in { checkSelectedFeatures(Requested, Available, platform, debugBreak) } :
         again.report = last.report /\ again.result = last.result
    /\ \A k \in 1..Len(last.report) :
         /\ GroupRank(last.report[k]) > 0
         /\ FlagRank(last.report[k]) > 0
         /\ last.report[k].version = TagOf(last.report[k].struct)
         /\ \E x \in AllFlags :
              StructText(x[1]) = last.report[k].struct /\ x[2] = last.report[k].feature
    /\ \A j, k \in 1..Len(last.report) :
         j < k => Before(last.report[j], last.report[k])

\* a report that runs from the first core flag through the extension groups
\* to the 1.2 flag
C15_Witness ==
  /\ IsCheck
  /\ Len(last.report) = Len(CheckList)
  /\ last.report[1].feature = "dualSrcBlend"
  /\ last.report[Len(last.report)].feature = "shaderFloat16"

-----------------------------------------------------------------------------
(* Properties of the configuration-gated structures *)

\* the configuration-gated structures in the chain of object o
GatedLinked(h, o) == Linked(h, o) \cap ConfigGated

\* C16 as stated: after a populate that returned, the buffer-device-address
\* and descriptor-indexing structures are in the chain of the set exactly when
\* the set's own configuration enables them, whatever configuration the
\* context carries; and an assignment that reassembles the destination does
\* not change which of the two are linked.
C16_OwnConfigurationGates ==
  [][ /\ ( /\ last'.op = "populateWithAvailablePhysicalDeviceFeatures"
           /\ last'.result = "Ok"
           /\ ops' = ops + 1 )
         => GatedLinked(vf', last'.this) =
              { b \in ConfigGated : Enabled(vf'[last'.this].config_, b) }
      /\ ( /\ last'.op = "operator="
           /\ last'.assembled
           /\ ops' = ops + 1 )
         => GatedLinked(vf', last'.this) = GatedLinked(vf, last'.this) ]_vars

-----------------------------------------------------------------------------
(* Properties of a successful assignment *)

\* the structures of the chain of object o, in order
BlockOrder(h, o) == [ i \in 1..Len(Chain(h, o)) |-> Chain(h, o)[i].blk ]

\* the step is an assignment this = other
IsAssignStep == last'.op = "operator=" /\ ops' = ops + 1

\* what an assignment that passes the guard does apart from the chain: flags
\* and catalog of the destination are those of the source, version and
\* configuration of the destination and the whole source are unchanged
CopiedStep ==
  /\ \A b \in Blocks : vf'[last'.this].blk[b].f = vf[last'.other].blk[b].f
  /\ vf'[last'.this].extensions_ = vf[last'.other].extensions_
  /\ vf'[last'.this].version_ = vf[last'.this].version_
  /\ vf'[last'.this].config_ = vf[last'.this].config_
  /\ vf'[last'.other] = vf[last'.other]

====
